---- MODULE Spec2Model ----
(***************************************************************************)
(* Model of the SmartFields pipeline orchestrator                          *)
(* (src/services/smartfields/main.py).                                     *)
(*                                                                         *)
(* The service is a single asyncio event loop: a coroutine runs without    *)
(* interruption from one await to the next.  Every action below is one     *)
(* such uninterrupted stretch of a request handler or of a background      *)
(* task (execute_pipeline).  The with pipeline_lock blocks contain no      *)
(* await (outside the shutdown hook), so they are part of the stretch.     *)
(***************************************************************************)
EXTENDS Integers, Sequences, FiniteSets, TLC

\* ------------------------------------------------------------- bounds
\* Start requests that are accepted over a behaviour (one task each).
MaxStarts == 2
\* stop_pipeline requests in progress at the same time.
MaxStops == 1
\* Pieces of text in the log file a wait_for_completion watches.
MaxLog == 3
\* Polls allowed to a wait_for_completion after its overall timeout.
MaxOverrun == 2
\* start_mission requests handled by a mission service
MaxMissions == 2
\* stop_mission requests handled by a mission service
MaxSvcStops == 2
\* pieces in the wildwings log up to which the subprocess's output is read
MaxOutput == 6

\* -------------------------------------------------- program constants
\* execute_pipeline: for _ in range(10) of the inter-step wait
delay_ticks == 10
\* wait_for_completion: timeout = 180, max_wait_for_log = 30 (seconds), and
\* the asyncio.sleep(2) of both of its loops
timeout == 180
max_wait_for_log == 30
poll_interval == 2
\* lat = None / lon = None / pipeline_task = None
None == -1

\* get_services(): the configured services, in dict order
ServiceNames == <<"openpasslite", "wildwings">>

\* execute_pipeline: flow = [(service, endpoint, mission_name)]
flow == << <<"openpasslite", "/start_mission", "LTT">>,
           <<"wildwings", "/start_mission", "None">>,
           <<"openpasslite", "/start_mission", "RTT">> >>

\* Coordinates a Start request may carry (lat, lon).
Coords == { <<0, 1>>, <<1, 2>> }

TaskIds == 1..MaxStarts
StopIds == 1..MaxStops
StepIds == 1..Len(flow)

VARIABLES
    pipeline_running,   \* global pipeline_running
    stop_event,         \* pipeline_stop_event.is_set()
    lat, lon,           \* globals lat, lon
    pipeline_task,      \* global pipeline_task: a task id, or None
    tasks,              \* the background tasks created by create_task
    cancel_req,         \* tasks on which Task.cancel() was called and not yet delivered
    stops,              \* the stop_pipeline handlers
    start_resp,         \* the response of the last initiate_pipeline request
    stop_resp,          \* the response of the last stop_pipeline request answered
    hist,               \* per task: what its run did; only the latest run's is kept
                        \* (observation only).  stopped: stop_pipeline set the stop
                        \* event while the task was executing steps
    accepted_open,      \* Start requests accepted since a task holding the guard last
                        \* ended (observation only)
    unlocked,           \* the globals some stretch so far has read or written outside
                        \* a "with pipeline_lock" block (observation only)
    pipeline_lock,      \* pipeline_lock at the suspension points: the coroutine holding
                        \* it, and the task whose acquire() blocks the loop's thread
    lifespan,           \* the shutdown half of lifespan: "serving", "await_task", "done"
    wfc,                \* one activation of wait_for_completion with its log file
    cs,                 \* one activation of call_service
    op,                 \* the openpasslite service: its globals, its mission thread
    ww                  \* the wildwings service: its globals, its mission thread,
                        \* its stop_mission handler

vars == <<pipeline_running, stop_event, lat, lon, pipeline_task, tasks, cancel_req,
          stops, start_resp, stop_resp, hist, accepted_open, unlocked, pipeline_lock,
          lifespan, wfc, cs, op, ww>>

\* What the request handlers and the background tasks leave alone.
shutdown_vars == <<pipeline_lock, lifespan>>
unit_vars == <<wfc, cs, op, ww>>

\* ------------------------------------------------------------- tasks
\* pc of a background task:
\*   "none"     not created
\*   "created"  create_task was called, the coroutine has not run yet
\*   "call"     suspended in await call_service(...)            (line 207)
\*   "logwait"  suspended in await asyncio.sleep(2), line 123
\*   "monitor"  suspended in await asyncio.sleep(2), line 170
\*   "delay"    suspended in await asyncio.sleep(1), line 241
\*   "done"     the task has ended
\* idx is the (1-based) index into flow, d the sleeps of the inter-step wait
\* slept so far.  What the task returned is kept in hist (nothing reads it).
\* c is the lat, lon of the request that created the task (observation only).
NoTask == [pc |-> "none", idx |-> 0, d |-> 0, c |-> <<None, None>>]

InBody(tk) == tk.pc \in {"call", "logwait", "monitor", "delay"}

NoHist == [attempts |-> [i \in StepIds |-> 0],
           call     |-> [i \in StepIds |-> "none"],
           wait     |-> [i \in StepIds |-> "none"],
           stopped  |-> FALSE,
           result   |-> "none"]

\* A stop_pipeline handler: pc is "new" (no request in progress), "contact"
\* (suspended in the stop_mission request to service i, line 414) or
\* "await_task" (suspended in await pipeline_task, line 429).
NoStop == [pc |-> "new", i |-> 0, stopped |-> <<>>, failed |-> <<>>, awaiting |-> None]

NoResp == [status |-> "none", stopped_services |-> <<>>, failed_services |-> <<>>]

\* pipeline_lock = threading.Lock() (line 34), not held.
Free == [holder |-> "free", waiter |-> None]

\* No activation of wait_for_completion, of call_service, under observation.
NoWait == [pc |-> "none"]
\* A mission service after import: no mission thread, nothing requested.
\* pc is the place its mission thread has reached, "none" when there is no
\* thread; log holds what the threads have written to the service's log file;
\* status, starts and stops are the answer of the last request handled and
\* the numbers of start and stop requests handled (observation only);
\* flagged_at is the pc the mission thread was at when a stop_mission first
\* set the stop flag for it, "none" if none did (observation only).
OpIdle == [mission_thread |-> "none", stop_mission_flag |-> FALSE, current_drone |-> FALSE,
           pc |-> "none", mission_name |-> "", drone |-> FALSE,
           mission_success |-> FALSE, run |-> "none", log |-> <<>>,
           status |-> "none", starts |-> 0, stops |-> 0, flagged_at |-> "none"]
WwIdle == [mission_thread |-> "none", stop_mission_flag |-> FALSE,
           current_process |-> "none", is_running |-> FALSE,
           mission_lat |-> None, mission_lon |-> None,
           pc |-> "none", mission_success |-> FALSE, return_code |-> None,
           log |-> <<>>, handler |-> "idle",
           status |-> "none", was_running |-> FALSE, starts |-> 0, stops |-> 0,
           flagged_at |-> "none"]

NoCall == [pc |-> "none"]

\* The stop_mission requests that are in flight.
StopRequests == {<<s, ServiceNames[stops[s].i]>> : s \in {u \in StopIds : stops[u].pc = "contact"}}

\* GET /pipeline_status: the handler only reads, under the lock.
pipeline_status ==
    [pipeline_running |-> pipeline_running,
     coordinates |-> IF lat # None /\ lat # 0 /\ lon # None /\ lon # 0
                     THEN <<lat, lon>> ELSE <<None, None>>,
     status |-> IF pipeline_running THEN "running" ELSE "idle",
     stop_requested |-> stop_event]

Init ==
    /\ pipeline_running = FALSE
    /\ stop_event = FALSE
    /\ lat = None
    /\ lon = None
    /\ pipeline_task = None
    /\ tasks = [t \in TaskIds |-> NoTask]
    /\ cancel_req = {}
    /\ stops = [s \in StopIds |-> NoStop]
    /\ start_resp = "none"
    /\ stop_resp = NoResp
    /\ hist = [t \in TaskIds |-> NoHist]
    /\ accepted_open = 0
    /\ unlocked = {}
    /\ pipeline_lock = Free
    /\ lifespan = "serving"
    /\ wfc = NoWait
    /\ cs = NoCall
    /\ op = OpIdle
    /\ ww = WwIdle

\* -------------------------------------------------- call_service, pure
\* get_services(): service name -> host:port
get_services ==
    [n \in {"openpasslite", "wildwings"} |->
        IF n = "openpasslite" THEN "localhost:2177" ELSE "localhost:2199"]

\* What the POST of call_service can come to: an HTTP status, the 30 s
\* ClientTimeout (asyncio.TimeoutError), or a failure to connect
\* (aiohttp.ClientError).
Statuses == {"200", "204", "500"}
Responses == Statuses \cup {"timeout", "conn_error"}

\* The body of the try block (lines 66-80): the exception it raises, or the
\* value it returns.
call_service_try(services, service_name, endpoint, mission_name, la, lo, resp) ==
    IF service_name \notin DOMAIN services
    THEN [raised |-> "KeyError", ret |-> "none", url |-> "none", params |-> <<>>]
    ELSE LET url == <<"http://", services[service_name], endpoint>>
             params == IF service_name = "openpasslite" /\ endpoint = "/start_mission"
                       THEN <<mission_name, la, lo>> ELSE <<>>
         IN  IF resp = "timeout"
             THEN [raised |-> "TimeoutError", ret |-> "none", url |-> url, params |-> params]
             ELSE IF resp = "conn_error"
             THEN [raised |-> "ClientError", ret |-> "none", url |-> url, params |-> params]
             ELSE [raised |-> "none", ret |-> IF resp = "200" THEN "True" ELSE "False",
                   url |-> url, params |-> params]

\* call_service with the lookup of the service's address before the try
\* block: a KeyError is not caught.
call_service_lookup_outside_try(services, service_name, endpoint, mission_name, la, lo, resp) ==
    LET b == call_service_try(services, service_name, endpoint, mission_name, la, lo, resp)
    IN  IF b.raised = "KeyError" THEN [b EXCEPT !.ret = "raise"]
        ELSE IF b.raised # "none" THEN [b EXCEPT !.ret = "False"]
        ELSE b

\* call_service (lines 62-88): except asyncio.TimeoutError and except
\* Exception both return False.  ret is "True", "False", or "raise" for an
\* exception that reaches the caller.
call_service(services, service_name, endpoint, mission_name, la, lo, resp) ==
    LET b == call_service_try(services, service_name, endpoint, mission_name, la, lo, resp)
    IN  IF b.raised = "TimeoutError" THEN [b EXCEPT !.ret = "False"]
        ELSE IF b.raised \in {"KeyError", "ClientError"} THEN [b EXCEPT !.ret = "False"]
        ELSE b

\* ---------------------------------------------- execute_pipeline, pure
\* What one uninterrupted stretch of a task leaves behind: the task's new
\* position, its history, and the two globals it writes.
Out(tk, h, run, ev) == [task |-> tk, hist |-> h, running |-> run, event |-> ev]

\* return <res> from inside the try block: the finally block runs.
Finally(tk, h, res) ==
    Out([tk EXCEPT !.pc = "done", !.idx = 0, !.d = 0], [h EXCEPT !.result = res],
        FALSE, FALSE)

\* The head of the for loop without the look at the stop event.
LoopTopNoStopCheck(tk, h, i, ev) ==
    IF i > Len(flow) THEN Finally(tk, h, "True")
    ELSE Out([tk EXCEPT !.pc = "call", !.idx = i, !.d = 0],
             [h EXCEPT !.attempts[i] = @ + 1], TRUE, ev)

\* The head of the for loop at (1-based) index i: the loop is exhausted, or
\* the stop event is checked and call_service is awaited.
LoopTop(tk, h, i, ev) ==
    IF i > Len(flow) THEN Finally(tk, h, "True")
    ELSE IF ev THEN Finally(tk, h, "False")
    ELSE Out([tk EXCEPT !.pc = "call", !.idx = i, !.d = 0],
             [h EXCEPT !.attempts[i] = @ + 1], TRUE, ev)

\* The failure policy with the first step continuing like the second.
StepFailedFirstContinues(tk, h, i, ev) ==
    IF i <= 2 THEN LoopTop(tk, h, i + 1, ev) ELSE Finally(tk, h, "False")

\* The failure policy with the last step continuing like the second.
StepFailedLastContinues(tk, h, i, ev) ==
    IF i = 1 THEN Finally(tk, h, "False") ELSE LoopTop(tk, h, i + 1, ev)

\* The failure policy aborting at every index.
StepFailedAlwaysAborts(tk, h, i, ev) == Finally(tk, h, "False")

\* The failure policy, hard-coded by index: idx == 0 aborts, idx == 1
\* continues with the next step, anything else aborts.
StepFailed(tk, h, i, ev) ==
    IF i = 1 THEN Finally(tk, h, "False")
    ELSE IF i = 2 THEN LoopTop(tk, h, i + 1, ev)
    ELSE Finally(tk, h, "False")

\* The inter-step wait as one asyncio.sleep(10) cut in ten: the stop event is
\* not looked at between the sleeps.
DelayIterNoStopCheck(tk, h, i, ev, d) ==
    IF d >= delay_ticks THEN LoopTop(tk, h, i + 1, ev)
    ELSE Out([tk EXCEPT !.pc = "delay", !.d = d + 1], h, TRUE, ev)

\* The inter-step wait skipped: the next step follows a completed one at once.
DelayIterNoWait(tk, h, i, ev, d) == LoopTop(tk, h, i + 1, ev)

\* One pass of the inter-step wait loop, d sleeps already slept.
DelayIter(tk, h, i, ev, d) ==
    IF d >= delay_ticks THEN LoopTop(tk, h, i + 1, ev)
    ELSE IF ev THEN Finally(tk, h, "False")
    ELSE Out([tk EXCEPT !.pc = "delay", !.d = d + 1], h, TRUE, ev)

\* The result of wait_for_completion ignored: every outcome goes on to the
\* inter-step wait.
AfterWaitIgnoresResult(tk, h, i, ev, ok, outcome) ==
    DelayIter(tk, [h EXCEPT !.wait[i] = outcome], i, ev, 0)

\* wait_for_completion has returned ok (with the outcome named for the record).
AfterWait(tk, h, i, ev, ok, outcome) ==
    LET h2 == [h EXCEPT !.wait[i] = outcome]
    IN  IF ok THEN DelayIter(tk, h2, i, ev, 0)
        ELSE StepFailed(tk, h2, i, ev)

\* The monitoring loop as while True: the stop event is not looked at.
MonitorIterNoStopCheck(tk, h, i, ev, fs, late) ==
    IF fs = "success" THEN AfterWait(tk, h, i, ev, TRUE, "Success")
    ELSE IF fs = "fail" THEN AfterWait(tk, h, i, ev, FALSE, "Failure")
    ELSE IF fs = "quiet" /\ late THEN AfterWait(tk, h, i, ev, FALSE, "TimedOut")
    ELSE Out([tk EXCEPT !.pc = "monitor"], h, TRUE, ev)

\* The monitoring loop as a loop that looks at the stop event after its body:
\* what the scan found is acted upon before the event.
MonitorOutcomeStopLast(ev, fs, late) ==
    IF fs = "success" THEN "Success"
    ELSE IF fs = "fail" THEN "Failure"
    ELSE IF ev THEN "Cancelled"
    ELSE IF fs = "quiet" /\ late THEN "TimedOut"
    ELSE "sleep"

\* One pass of the monitoring loop (lines 126-173).  fs is what the file
\* system shows in this pass:
\*   "success"  the new content holds the completion pattern and no failure pattern
\*   "fail"     the new content holds a failure pattern
\*   "quiet"    nothing new, or new content without any pattern
\*   "error"    stat or read raised (caught by the except of line 167)
\* and late is the answer of time.time() - start_time > timeout, a reading of
\* the system clock.
MonitorOutcome(ev, fs, late) ==
    IF ev THEN "Cancelled"
    ELSE IF fs = "success" THEN "Success"
    ELSE IF fs = "fail" THEN "Failure"
    ELSE IF fs = "quiet" /\ late THEN "TimedOut"
    ELSE "sleep"

MonitorIter(tk, h, i, ev, fs, late) ==
    LET o == MonitorOutcome(ev, fs, late)
    IN  IF o = "sleep" THEN Out([tk EXCEPT !.pc = "monitor"], h, TRUE, ev)
        ELSE AfterWait(tk, h, i, ev, o = "Success", o)

\* One pass of the loop waiting for the log file to appear (lines 114-123);
\* exists is the answer of log_file_path.exists() ("raise": it raised, which
\* nothing in wait_for_completion catches, so the except of line 253 does),
\* late that of time.time() - log_wait_start > max_wait_for_log.
LogWaitIter(tk, h, i, ev, exists, fs, late) ==
    IF exists = "raise" THEN Finally(tk, [h EXCEPT !.wait[i] = "Raised"], "False")
    ELSE IF exists = "yes" THEN MonitorIter(tk, h, i, ev, fs, late)
    ELSE IF ev THEN AfterWait(tk, h, i, ev, FALSE, "Cancelled")
    ELSE IF late THEN AfterWait(tk, h, i, ev, FALSE, "TimedOut")
    ELSE Out([tk EXCEPT !.pc = "logwait"], h, TRUE, ev)

\* call_service has returned; wait_for_completion starts whatever it returned.
AfterCallWaitsAnyway(tk, h, i, ev, ok, exists, fs) ==
    LET h2 == [h EXCEPT !.call[i] = IF ok THEN "ok" ELSE "failed"]
    IN  IF fs = "error" THEN AfterWait(tk, h2, i, ev, FALSE, "Error")
        ELSE LogWaitIter(tk, h2, i, ev, exists, fs, FALSE)

\* call_service has returned ok; on success wait_for_completion starts
\* (lines 90-110): the stat of line 103 may raise.  No await lies between
\* start_time = time.time() and the first pass of either loop, so neither
\* timeout has elapsed in that pass.
AfterCall(tk, h, i, ev, ok, exists, fs) ==
    LET h2 == [h EXCEPT !.call[i] = IF ok THEN "ok" ELSE "failed"]
    IN  IF ~ok THEN StepFailed(tk, h2, i, ev)
        ELSE IF fs = "error" THEN AfterWait(tk, h2, i, ev, FALSE, "Error")
        ELSE LogWaitIter(tk, h2, i, ev, exists, fs, FALSE)

\* Begin without the check of pipeline_running.
BeginNoGuard(tk, h, run, ev) == LoopTop(tk, h, 1, FALSE)

\* Begin with the stop event cleared before pipeline_running is looked at.
BeginClearsFirst(tk, h, run, ev) ==
    IF run THEN Out([tk EXCEPT !.pc = "done"], [h EXCEPT !.result = "False"], run, FALSE)
    ELSE LoopTop(tk, h, 1, FALSE)

\* The first stretch of execute_pipeline (lines 179-207).
Begin(tk, h, run, ev) ==
    IF run THEN Out([tk EXCEPT !.pc = "done"], [h EXCEPT !.result = "False"], run, ev)
    ELSE LoopTop(tk, h, 1, FALSE)

\* Cancellation with the guard released on the return paths only, not in a
\* finally block.
CancelledNoFinally(tk, h, run, ev) ==
    Out([tk EXCEPT !.pc = "done", !.idx = 0, !.d = 0], [h EXCEPT !.result = "Cancelled"],
        run, ev)

\* Task.cancel() is delivered at the task's next step: CancelledError is raised
\* at the await the task is suspended in (it is no Exception, so the except of
\* line 253 lets it pass and the finally block runs); a task that has not run
\* yet ends without executing any of execute_pipeline.
Cancelled(tk, h, run, ev) ==
    IF tk.pc = "created"
    THEN Out([tk EXCEPT !.pc = "done"], [h EXCEPT !.result = "Cancelled"], run, ev)
    ELSE Finally(tk, h, "Cancelled")

FsOutcomes == {"success", "fail", "quiet", "error"}
ExistsOutcomes == {"yes", "no", "raise"}

\* ------------------------------------------------- stop_pipeline, pure
\* stop_pipeline setting the stop event before it looks at pipeline_running.
StopFirstSetsEvent(st, run, ev) ==
    IF ~run
    THEN [stop |-> NoStop, event |-> TRUE,
          resp |-> [NoResp EXCEPT !.status = "already_stopped"]]
    ELSE [stop |-> [st EXCEPT !.pc = "contact", !.i = 1], event |-> TRUE, resp |-> NoResp]

\* The first stretch of stop_pipeline (lines 391-414): the check under the
\* lock, the stop event, and the first stop_mission request.
StopFirst(st, run, ev) ==
    IF ~run
    THEN [stop |-> NoStop, event |-> ev,
          resp |-> [NoResp EXCEPT !.status = "already_stopped"]]
    ELSE [stop |-> [st EXCEPT !.pc = "contact", !.i = 1], event |-> TRUE, resp |-> NoResp]

\* The answer filed only when it is a 200: a failure is logged and dropped.
FiledOnlyStopped(st, ok) ==
    IF ok THEN [st EXCEPT !.stopped = Append(@, ServiceNames[st.i])] ELSE st

\* The answer of service i is filed (lines 415-423).
Filed(st, ok) ==
    IF ok THEN [st EXCEPT !.stopped = Append(@, ServiceNames[st.i])]
    ELSE [st EXCEPT !.failed = Append(@, ServiceNames[st.i])]

\* After the last answer with Task.cancel() fired and forgotten: the handler
\* answers without awaiting the task.
StopLastNoAwait(st, task) == [st EXCEPT !.pc = "done"]

\* After the last answer (lines 425-439): cancel and await the task that
\* pipeline_task names now, if it is not done; task is None otherwise.
StopLast(st, task) ==
    IF task # None
    THEN [st EXCEPT !.pc = "await_task", !.awaiting = task]
    ELSE [st EXCEPT !.pc = "done"]

\* The response of lines 433-439.
Stopped(st) ==
    [status |-> "stopped", stopped_services |-> st.stopped, failed_services |-> st.failed]

\* ----------------------------------------------------------- actions
\* The stretch that leads task t to o executes a "with pipeline_lock" block:
\* the guard of lines 179-184 in the first stretch, the finally block of
\* lines 257-259 in the last.
TakesLock(t, o) ==
    \/ tasks[t].pc = "created" /\ o.hist.result # "Cancelled"
    \/ InBody(tasks[t]) /\ o.task.pc = "done"

\* The globals the stretch reads outside the lock: a stretch that ends
\* suspended in the body has passed pipeline_stop_event.is_set() (lines 200,
\* 115, 126, 238) on its way, and one that ends in the call of
\* openpasslite's /start_mission has read lat and lon (line 69).
ReadsUnlocked(o) ==
    (IF InBody(o.task) THEN {"pipeline_stop_event"} ELSE {})
    \cup (IF o.task.pc = "call" /\ flow[o.task.idx][1] = "openpasslite"
                /\ flow[o.task.idx][2] = "/start_mission"
          THEN {"lat", "lon"} ELSE {})

Apply(t, o) ==
    /\ pipeline_lock.waiter = None
    /\ TakesLock(t, o) => pipeline_lock.holder = "free"
    /\ unlocked' = unlocked \cup ReadsUnlocked(o)
    /\ UNCHANGED shutdown_vars
    /\ UNCHANGED unit_vars
    /\ tasks' = [tasks EXCEPT ![t] = o.task]
    /\ hist' = IF ~InBody(tasks[t]) /\ InBody(o.task)
               THEN [u \in TaskIds |-> IF u = t THEN o.hist ELSE NoHist]
               ELSE [hist EXCEPT ![t] = o.hist]
    /\ pipeline_running' = o.running
    /\ stop_event' = o.event
    /\ accepted_open' = IF o.task.pc = "done" /\ (InBody(tasks[t]) \/ o.hist.result = "Cancelled")
                         THEN 0 ELSE accepted_open
    /\ UNCHANGED <<lat, lon, pipeline_task, stops, start_resp, stop_resp>>

\* POST /initiate_pipeline (initiate_process), accepted or answered 409.
Start(c) ==
    /\ lifespan = "serving"
    /\ UNCHANGED shutdown_vars
    /\ UNCHANGED unit_vars
    /\ IF pipeline_running
       THEN
         /\ start_resp' = "409"
         /\ UNCHANGED <<pipeline_running, stop_event, lat, lon, pipeline_task, tasks,
                        cancel_req, stops, stop_resp, hist, accepted_open, unlocked>>
       ELSE \E t \in TaskIds :
         /\ tasks[t].pc = "none"
         /\ \A u \in TaskIds : u < t => tasks[u].pc # "none"
         /\ lat' = c[1]
         /\ lon' = c[2]
         /\ tasks' = [tasks EXCEPT ![t].pc = "created", ![t].c = c]
         /\ pipeline_task' = t
         /\ start_resp' = "pipeline_started"
         /\ accepted_open' = accepted_open + 1
         /\ unlocked' = unlocked \cup {"lat", "lon", "pipeline_task"}
         /\ UNCHANGED <<pipeline_running, stop_event, cancel_req, stops,
                        stop_resp, hist>>

\* The task's coroutine runs for the first time.
TaskBegin(t) ==
    /\ UNCHANGED cancel_req
    /\ tasks[t].pc = "created"
    /\ t \notin cancel_req
    /\ Apply(t, Begin(tasks[t], NoHist, pipeline_running, stop_event))

\* The call_service of the step task t is at, answered by resp.
Called(t, resp) ==
    LET step == flow[tasks[t].idx]
    IN  call_service(get_services, step[1], step[2], step[3], lat, lon, resp)

\* await call_service(...) returns; an exception out of it would be caught
\* at line 253.
CallReturn(t) ==
    /\ UNCHANGED cancel_req
    /\ tasks[t].pc = "call"
    /\ t \notin cancel_req
    /\ \E resp \in Responses, exists \in ExistsOutcomes, fs \in FsOutcomes :
          LET r == Called(t, resp)
          IN  IF r.ret = "raise"
              THEN Apply(t, Finally(tasks[t], hist[t], "False"))
              ELSE Apply(t, AfterCall(tasks[t], hist[t], tasks[t].idx, stop_event,
                                      r.ret = "True", exists, fs))

\* The sleep of the log-appearance loop ends.
LogWaitTick(t) ==
    /\ UNCHANGED cancel_req
    /\ tasks[t].pc = "logwait"
    /\ t \notin cancel_req
    /\ \E exists \in ExistsOutcomes, fs \in FsOutcomes, late \in BOOLEAN :
          Apply(t, LogWaitIter(tasks[t], hist[t], tasks[t].idx, stop_event, exists, fs, late))

\* The sleep of the monitoring loop ends.
MonitorTick(t) ==
    /\ UNCHANGED cancel_req
    /\ tasks[t].pc = "monitor"
    /\ t \notin cancel_req
    /\ \E fs \in FsOutcomes, late \in BOOLEAN :
          Apply(t, MonitorIter(tasks[t], hist[t], tasks[t].idx, stop_event, fs, late))

\* One sleep of the inter-step wait ends.
DelayTick(t) ==
    /\ UNCHANGED cancel_req
    /\ tasks[t].pc = "delay"
    /\ t \notin cancel_req
    /\ Apply(t, DelayIter(tasks[t], hist[t], tasks[t].idx, stop_event, tasks[t].d))

\* A cancellation requested by stop_pipeline reaches the task.
TaskCancelled(t) ==
    /\ t \in cancel_req
    /\ tasks[t].pc \notin {"none", "done"}
    /\ cancel_req' = cancel_req \ {t}
    /\ Apply(t, Cancelled(tasks[t], hist[t], pipeline_running, stop_event))

\* POST /stop_pipeline, up to the first await (or to the response).
StopBegin(s) ==
    /\ lifespan = "serving"
    /\ UNCHANGED <<unlocked, pipeline_lock, lifespan, wfc, cs, op, ww>>
    /\ stops[s].pc = "new"
    /\ \A u \in StopIds : u < s => stops[u].pc # "new"
    /\ LET o == StopFirst(stops[s], pipeline_running, stop_event)
       IN  /\ stops' = [stops EXCEPT ![s] = o.stop]
           /\ stop_event' = o.event
           /\ stop_resp' = IF o.stop.pc = "new" THEN o.resp ELSE stop_resp
           /\ hist' = [t \in TaskIds |->
                         IF o.stop.pc = "contact" /\ InBody(tasks[t])
                         THEN [hist[t] EXCEPT !.stopped = TRUE] ELSE hist[t]]
    /\ UNCHANGED <<pipeline_running, lat, lon, pipeline_task, tasks, cancel_req,
                   start_resp, accepted_open>>

\* A stop_mission request is answered (200, or anything else); the next one
\* is sent, or the handler goes on to the task (and to the response, when
\* there is no task to cancel).
StopContact(s) ==
    /\ stops[s].pc = "contact"
    /\ \E ok \in BOOLEAN :
         LET st == Filed(stops[s], ok)
             live == IF pipeline_task # None /\ tasks[pipeline_task].pc # "done"
                     THEN pipeline_task ELSE None
             last == StopLast(st, live)
         IN  IF st.i < Len(ServiceNames)
             THEN /\ stops' = [stops EXCEPT ![s] = [st EXCEPT !.i = @ + 1]]
                  /\ UNCHANGED <<cancel_req, stop_resp, unlocked>>
             ELSE /\ stops' = [stops EXCEPT ![s] = IF last.pc = "done" THEN NoStop ELSE last]
                  /\ cancel_req' = IF live # None THEN cancel_req \cup {live}
                                    ELSE cancel_req
                  /\ stop_resp' = IF last.pc = "done" THEN Stopped(st) ELSE stop_resp
                  /\ unlocked' = unlocked \cup {"pipeline_task"}
    /\ UNCHANGED <<pipeline_running, stop_event, lat, lon, pipeline_task, tasks,
                   start_resp, hist, accepted_open>>
    /\ UNCHANGED <<pipeline_lock, lifespan, wfc, cs, op, ww>>

\* await pipeline_task returns (CancelledError is caught) and the handler answers.
StopAwaitDone(s) ==
    /\ stops[s].pc = "await_task"
    /\ tasks[stops[s].awaiting].pc = "done"
    /\ stops' = [stops EXCEPT ![s] = NoStop]
    /\ stop_resp' = Stopped(stops[s])
    /\ UNCHANGED <<pipeline_running, stop_event, lat, lon, pipeline_task, tasks,
                   cancel_req, start_resp, hist, accepted_open>>
    /\ UNCHANGED <<unlocked, pipeline_lock, lifespan, wfc, cs, op, ww>>

Next ==
    \/ \E c \in Coords : Start(c)
    \/ \E t \in TaskIds : TaskBegin(t)
    \/ \E t \in TaskIds : CallReturn(t)
    \/ \E t \in TaskIds : LogWaitTick(t)
    \/ \E t \in TaskIds : MonitorTick(t)
    \/ \E t \in TaskIds : DelayTick(t)
    \/ \E t \in TaskIds : TaskCancelled(t)
    \/ \E s \in StopIds : StopBegin(s)
    \/ \E s \in StopIds : StopContact(s)
    \/ \E s \in StopIds : StopAwaitDone(s)

Spec == Init /\ [][Next]_vars

\* The event loop resumes a suspended task once what it awaits is over: a
\* sleep ends, a call returns or times out, a cancellation is delivered.
TaskStep(t) ==
    \/ TaskBegin(t) \/ CallReturn(t) \/ LogWaitTick(t) \/ MonitorTick(t)
    \/ DelayTick(t) \/ TaskCancelled(t)

FairSpec == Spec /\ \A t \in TaskIds : WF_vars(TaskStep(t))

\* ------------------------------------------------- lifespan, shutdown
\* Every outcome the next stretch of task t can have, over what the calls,
\* the file system and the clock may answer.
Outcomes(t) ==
    LET tk == tasks[t]
    IN  IF tk.pc \in {"none", "done"} THEN {}
        ELSE IF t \in cancel_req THEN {Cancelled(tk, hist[t], pipeline_running, stop_event)}
        ELSE IF tk.pc = "created" THEN {Begin(tk, NoHist, pipeline_running, stop_event)}
        ELSE IF tk.pc = "call"
        THEN {AfterCall(tk, hist[t], tk.idx, stop_event, Called(t, resp).ret = "True",
                        exists, fs) :
                 resp \in Responses, exists \in ExistsOutcomes, fs \in FsOutcomes}
        ELSE IF tk.pc = "logwait"
        THEN {LogWaitIter(tk, hist[t], tk.idx, stop_event, exists, fs, late) :
                 exists \in ExistsOutcomes, fs \in FsOutcomes, late \in BOOLEAN}
        ELSE IF tk.pc = "monitor"
        THEN {MonitorIter(tk, hist[t], tk.idx, stop_event, fs, late) :
                 fs \in FsOutcomes, late \in BOOLEAN}
        ELSE {DelayIter(tk, hist[t], tk.idx, stop_event, tk.d)}

\* The code after the yield of lifespan (lines 269-284), run when the server
\* shuts down and no request handler is in progress any more: under the lock,
\* if a pipeline is running, the stop event is set and the task that
\* pipeline_task names, if not done, is cancelled and awaited, the lock still
\* held.
ShutdownBegin ==
    /\ lifespan = "serving"
    /\ \A s \in StopIds : stops[s].pc = "new"
    /\ pipeline_lock = Free
    /\ IF pipeline_running
       THEN /\ stop_event' = TRUE
            /\ IF pipeline_task # None /\ tasks[pipeline_task].pc # "done"
               THEN /\ cancel_req' = cancel_req \cup {pipeline_task}
                    /\ lifespan' = "await_task"
                    /\ pipeline_lock' = [holder |-> "lifespan", waiter |-> None]
               ELSE /\ lifespan' = "done"
                    /\ UNCHANGED <<cancel_req, pipeline_lock>>
       ELSE /\ lifespan' = "done"
            /\ UNCHANGED <<stop_event, cancel_req, pipeline_lock>>
    /\ UNCHANGED <<pipeline_running, lat, lon, pipeline_task, tasks, stops, start_resp,
                   stop_resp, hist, accepted_open, unlocked, wfc, cs, op, ww>>

\* await pipeline_task returns in lifespan (CancelledError is caught, line
\* 281) and the with block is left.
ShutdownAwaitDone ==
    /\ lifespan = "await_task"
    /\ pipeline_lock.waiter = None
    /\ tasks[pipeline_task].pc = "done"
    /\ lifespan' = "done"
    /\ pipeline_lock' = Free
    /\ UNCHANGED <<pipeline_running, stop_event, lat, lon, pipeline_task, tasks,
                   cancel_req, stops, start_resp, stop_resp, hist, accepted_open,
                   unlocked, wfc, cs, op, ww>>

\* Task t runs into a "with pipeline_lock" while lifespan holds the lock:
\* threading.Lock.acquire() blocks the thread of the event loop, which runs
\* no coroutine from then on.
BlockedOnLock(t) ==
    /\ pipeline_lock.holder # "free"
    /\ pipeline_lock.waiter = None
    /\ \E o \in Outcomes(t) : TakesLock(t, o)
    /\ pipeline_lock' = [pipeline_lock EXCEPT !.waiter = t]
    /\ UNCHANGED <<pipeline_running, stop_event, lat, lon, pipeline_task, tasks,
                   cancel_req, stops, start_resp, stop_resp, hist, accepted_open,
                   unlocked, lifespan, wfc, cs, op, ww>>

ShutdownNext ==
    \/ Next
    \/ ShutdownBegin
    \/ ShutdownAwaitDone
    \/ \E t \in TaskIds : BlockedOnLock(t)

\* The service from its start to the end of its shutdown.
SpecShutdown == Init /\ [][ShutdownNext]_vars

\* ------------------------------------------- call_service on its own
\* The arguments call_service is given: a configured service or one that
\* get_services() does not know, an endpoint, a mission name.
CallArgs ==
    [service_name : {"openpasslite", "wildwings", "unknown"},
     endpoint : {"/start_mission", "/stop_mission"},
     mission_name : {"LTT", "RTT", "None"}]

\* One call of call_service, in any state of the run state it could read.
CallInit ==
    /\ pipeline_running \in BOOLEAN
    /\ stop_event \in BOOLEAN
    /\ \E c \in Coords \cup {<<None, None>>} : lat = c[1] /\ lon = c[2]
    /\ \E a \in CallArgs : cs = [pc |-> "called", args |-> a, resp |-> "none",
                                  result |-> "none"]
    /\ pipeline_task = None
    /\ tasks = [t \in TaskIds |-> NoTask]
    /\ cancel_req = {}
    /\ stops = [s \in StopIds |-> NoStop]
    /\ start_resp = "none"
    /\ stop_resp = NoResp
    /\ hist = [t \in TaskIds |-> NoHist]
    /\ accepted_open = 0
    /\ unlocked = {}
    /\ pipeline_lock = Free
    /\ lifespan = "serving"
    /\ wfc = NoWait
    /\ op = OpIdle
    /\ ww = WwIdle

\* The call returns (or raises) with the answer resp of the network; the
\* function has no global statement and assigns no global.
CallServiceReturns ==
    /\ cs.pc = "called"
    /\ \E resp \in Responses :
          cs' = [cs EXCEPT !.pc = "returned", !.resp = resp,
                           !.result = call_service(get_services, cs.args.service_name,
                                                   cs.args.endpoint, cs.args.mission_name,
                                                   lat, lon, resp)]
    /\ UNCHANGED <<pipeline_running, stop_event, lat, lon, pipeline_task, tasks,
                   cancel_req, stops, start_resp, stop_resp, hist, accepted_open,
                   unlocked, pipeline_lock, lifespan, wfc, op, ww>>

SpecCall == CallInit /\ [][CallServiceReturns]_vars

\* ------------------------------------- wait_for_completion on its own
\* The log file is a sequence of pieces of text, each one written whole or
\* not at all; the patterns wait_for_completion looks for are sequences of
\* such pieces, and "pattern in new_content" is the search for a contiguous
\* run of them.
Tokens == {"Mission LTT thread", "Mission thread", "finished", "with errors",
           "AssertionError", "text"}

\* f"Mission {mission_name} thread", f"Mission {mission_name} failed:"
MissionThread(mission_name) ==
    IF mission_name = "LTT" THEN "Mission LTT thread"
    ELSE IF mission_name = "RTT" THEN "Mission RTT thread"
    ELSE "Mission None thread"
MissionFailed(mission_name) ==
    IF mission_name = "LTT" THEN "Mission LTT failed:"
    ELSE IF mission_name = "RTT" THEN "Mission RTT failed:"
    ELSE "Mission None failed:"

\* completion_pattern (line 100) and failure_patterns (lines 136-143)
completion_pattern(mission_name) == <<MissionThread(mission_name), "finished">>
failure_patterns(mission_name) ==
    << <<MissionFailed(mission_name)>>,
       <<"Mission failed:">>,
       <<"Mission thread", "finished", "with errors">>,
       <<"AssertionError">>,
       <<"connection timed out">>,
       <<"Mission process exited with return code:">> >>

\* pattern occurs in content at position k
IsAt(content, pattern, k) ==
    /\ k + Len(pattern) - 1 <= Len(content)
    /\ \A j \in 1..Len(pattern) : content[k + j - 1] = pattern[j]

\* content.find(pattern), 1-based; 0 when there is no occurrence
Find(content, pattern) ==
    LET at == {k \in 1..Len(content) : IsAt(content, pattern, k)}
    IN  IF at = {} THEN 0 ELSE CHOOSE k \in at : \A j \in at : k <= j

\* pattern in content
In(pattern, content) == Find(content, pattern) # 0

\* The scan looking for the completion pattern before the failure patterns.
ScanSuccessFirst(new_content, mission_name) ==
    IF In(completion_pattern(mission_name), new_content) THEN "success"
    ELSE IF \E k \in 1..Len(failure_patterns(mission_name)) :
                In(failure_patterns(mission_name)[k], new_content)
    THEN "fail"
    ELSE "quiet"

\* The scan of new_content (lines 135-159): any failure pattern anywhere in
\* it is a failure; else the completion pattern is a success, unless
\* "finished with errors" follows from where it starts.
Scan(new_content, mission_name) ==
    IF \E k \in 1..Len(failure_patterns(mission_name)) :
           In(failure_patterns(mission_name)[k], new_content)
    THEN "fail"
    ELSE IF In(completion_pattern(mission_name), new_content)
    THEN LET completion_index == Find(new_content, completion_pattern(mission_name))
             after_completion == SubSeq(new_content, completion_index, Len(new_content))
         IN  IF In(<<"finished", "with errors">>, after_completion) THEN "fail"
             ELSE "success"
    ELSE "quiet"

\* wait_for_completion returns: what it returns, and the new_content its
\* last scan read (observation only).
WaitReturn(w, outcome, new_content) ==
    [w EXCEPT !.pc = "done", !.outcome = outcome, !.read = new_content]

\* One pass of the monitoring loop over the file (lines 126-173), elapsed
\* seconds after start_time.  err: stat or read raises in this pass; extra:
\* what the service appends between the stat of line 128 and the read of
\* line 133, which reads to the end of the file.
MonitorPass(w, ev, err, extra) ==
    LET current_size == Len(w.content)
        file == w.content \o extra
        new_content == SubSeq(file, w.initial_size + 1, Len(file))
        fs == IF err THEN "error"
              ELSE IF current_size > w.initial_size THEN Scan(new_content, w.mission_name)
              ELSE "quiet"
        o == MonitorOutcome(ev, fs, w.elapsed > timeout)
        w2 == [w EXCEPT !.content = file]
    IN  IF o = "sleep"
        THEN [w2 EXCEPT !.pc = "monitor",
                        !.initial_size = IF ~err /\ current_size > @ THEN current_size ELSE @]
        ELSE WaitReturn(w2, o, IF o \in {"Success", "Failure"} THEN new_content ELSE <<>>)

\* One pass of the loop waiting for the file to appear (lines 114-123).
LogWaitPass(w, ev, err, extra) ==
    IF w.exists THEN MonitorPass(w, ev, err, extra)
    ELSE IF ev THEN WaitReturn(w, "Cancelled", <<>>)
    ELSE IF w.elapsed > max_wait_for_log THEN WaitReturn(w, "TimedOut", <<>>)
    ELSE [w EXCEPT !.pc = "logwait"]

\* The baseline left at 0: the file is read from its start.
WaitFirstFromStart(w, ev, err_stat, err, extra) ==
    IF err_stat THEN WaitReturn(w, "Error", <<>>)
    ELSE LET size == IF w.exists THEN Len(w.content) ELSE 0
         IN  LogWaitPass([w EXCEPT !.initial_size = 0, !.baseline = size, !.elapsed = 0],
                         ev, err, extra)

\* Lines 94-110: the baseline is the size of the file, 0 if there is none.
WaitFirst(w, ev, err_stat, err, extra) ==
    IF err_stat THEN WaitReturn(w, "Error", <<>>)
    ELSE LET size == IF w.exists THEN Len(w.content) ELSE 0
         IN  LogWaitPass([w EXCEPT !.initial_size = size, !.baseline = size, !.elapsed = 0],
                         ev, err, extra)

\* What the service may append: nothing, or one piece if the file has room.
Extras(w) == {<<>>} \cup (IF w.exists /\ Len(w.content) < MaxLog
                          THEN {<<tok>> : tok \in Tokens} ELSE {})

Contents == UNION {[1..n -> Tokens] : n \in 0..MaxLog}

\* wait_for_completion is called for mission LTT during a run, the log file
\* absent or holding whatever earlier missions left in it.
WaitInit ==
    /\ pipeline_running = TRUE
    /\ stop_event = FALSE
    /\ \E e \in BOOLEAN : \E c \in Contents :
          /\ ~e => c = <<>>
          /\ wfc = [pc |-> "start", mission_name |-> "LTT", exists |-> e, content |-> c,
                    initial_size |-> 0, baseline |-> 0, elapsed |-> 0,
                    outcome |-> "none", read |-> <<>>]
    /\ lat = None
    /\ lon = None
    /\ pipeline_task = None
    /\ tasks = [t \in TaskIds |-> NoTask]
    /\ cancel_req = {}
    /\ stops = [s \in StopIds |-> NoStop]
    /\ start_resp = "none"
    /\ stop_resp = NoResp
    /\ hist = [t \in TaskIds |-> NoHist]
    /\ accepted_open = 0
    /\ unlocked = {}
    /\ pipeline_lock = Free
    /\ lifespan = "serving"
    /\ cs = NoCall
    /\ op = OpIdle
    /\ ww = WwIdle

wait_frame == <<pipeline_running, lat, lon, pipeline_task, tasks, cancel_req, stops,
                start_resp, stop_resp, hist, accepted_open, unlocked, pipeline_lock,
                lifespan, cs, op, ww>>

\* The first stretch of wait_for_completion, up to its first sleep.
WaitBegin ==
    /\ wfc.pc = "start"
    /\ \E err_stat \in BOOLEAN, err \in BOOLEAN : \E extra \in Extras(wfc) :
          wfc' = WaitFirst(wfc, stop_event, err_stat, err, extra)
    /\ UNCHANGED stop_event
    /\ UNCHANGED wait_frame

\* The sleep of line 123 ends.
WaitLogTick ==
    /\ wfc.pc = "logwait"
    /\ \E err \in BOOLEAN : \E extra \in Extras(wfc) :
          wfc' = LogWaitPass([wfc EXCEPT !.elapsed = @ + poll_interval], stop_event, err, extra)
    /\ UNCHANGED stop_event
    /\ UNCHANGED wait_frame

\* The sleep of line 170 ends.
WaitMonitorTick ==
    /\ wfc.pc = "monitor"
    /\ wfc.elapsed < timeout + MaxOverrun * poll_interval
    /\ \E err \in BOOLEAN : \E extra \in Extras(wfc) :
          wfc' = MonitorPass([wfc EXCEPT !.elapsed = @ + poll_interval], stop_event, err, extra)
    /\ UNCHANGED stop_event
    /\ UNCHANGED wait_frame

\* The service creates its log file.
LogCreate ==
    /\ wfc.pc \in {"logwait", "monitor"}
    /\ ~wfc.exists
    /\ wfc' = [wfc EXCEPT !.exists = TRUE]
    /\ UNCHANGED stop_event
    /\ UNCHANGED wait_frame

\* The service appends a piece of text to its log file.
LogAppend(tok) ==
    /\ wfc.pc \in {"logwait", "monitor"}
    /\ <<tok>> \in Extras(wfc)
    /\ wfc' = [wfc EXCEPT !.content = Append(@, tok)]
    /\ UNCHANGED stop_event
    /\ UNCHANGED wait_frame

\* stop_pipeline sets the stop event.
WaitStop ==
    /\ wfc.pc \in {"logwait", "monitor"}
    /\ ~stop_event
    /\ stop_event' = TRUE
    /\ UNCHANGED wfc
    /\ UNCHANGED wait_frame

WaitNext ==
    \/ WaitBegin
    \/ WaitLogTick
    \/ WaitMonitorTick
    \/ LogCreate
    \/ \E tok \in Tokens : LogAppend(tok)
    \/ WaitStop

SpecWait == WaitInit /\ [][WaitNext]_vars

\* -------------------------------------------------- mission services
\* openpasslite/main.py and wildwings/main.py.  Each service has one event
\* loop, on which its request handlers run one at a time, and at most a few
\* mission threads, which run beside it.  pc of a mission thread:
\*   "none"       no Thread object            "unstarted"  Thread.start() raised
\*   "begin" ...  the statement it is about to execute (see the operators)
\*   "ended"      the thread has ended
Missions == {"LTT", "RTT"}

\* mission_thread and mission_thread.is_alive()
is_alive(s) == s.mission_thread = "thread" /\ s.pc \notin {"none", "unstarted", "ended"}

\* A record of the log file: the formatter's prefix, then the message.  A
\* message holding none of the texts the orchestrator looks for is "text".
Line(msg) == <<"text">> \o msg
Unmatched == Line(<<"text">>)

\* ---- openpasslite: run_mission_background (lines 38-97)
\* lines 69-71: except Exception
OpExcept(o) ==
    [o EXCEPT !.pc = "finally", !.mission_success = FALSE,
              !.log = @ \o Line(<<MissionFailed(o.mission_name)>>)]

\* lines 45-47, pc "begin": the stop flag is looked at, once
OpBegin(o) ==
    IF o.stop_mission_flag
    THEN [o EXCEPT !.pc = "finally", !.log = @ \o Unmatched]
    ELSE [o EXCEPT !.pc = "import", !.log = @ \o Unmatched]

\* The packages of openpasslite/mission, each with a script.py defining run.
mission_dirs == {"LTT", "RTB", "LAND", "TAKEOFF"}

\* line 50, pc "import": importlib.import_module(f"mission.{mission_name}.script")
\* raises ModuleNotFoundError for a name that is no package of mission/
OpImport(o) ==
    IF o.mission_name \in mission_dirs THEN [o EXCEPT !.pc = "setup"]
    ELSE OpExcept(o)

\* lines 52-54, pc "setup": the controller is made and published in
\* current_drone; ok: AnafiController(...) did not raise
OpSetup(o, ok) ==
    IF ok THEN [o EXCEPT !.pc = "connect", !.drone = TRUE, !.current_drone = TRUE]
    ELSE OpExcept(o)

\* lines 56-59, pc "connect"
OpConnect(o, ok) ==
    IF ok THEN [o EXCEPT !.pc = "run", !.log = @ \o Unmatched]
    ELSE OpExcept(o)

\* lines 61-67, pc "run": r is "returned" or "raised" for what run() did,
\* "undefined" when the module defines no run
OpRun(o, r) ==
    IF r = "returned"
    THEN [o EXCEPT !.pc = "finally", !.run = r, !.mission_success = TRUE,
                   !.log = @ \o Unmatched]
    ELSE IF r = "raised" THEN OpExcept([o EXCEPT !.run = r])
    ELSE OpExcept(o)

\* lines 73-86, pc "finally": under mission_lock; ok: disconnect() returned
OpFinally(o, ok) ==
    [o EXCEPT !.pc = "clear", !.drone = FALSE, !.current_drone = FALSE,
              !.log = IF ~o.drone THEN @
                      ELSE IF ok THEN @ \o Unmatched
                      ELSE @ \o Line(<<"Error disconnecting drone:">>)]

\* lines 88-92, pc "clear"
OpClear(o) ==
    [o EXCEPT !.pc = "sleep", !.stop_mission_flag = FALSE, !.log = @ \o Unmatched]

\* The end of the thread with a line logged only for a mission that succeeded.
OpEndSilentOnFailure(o) ==
    [o EXCEPT !.pc = "ended",
              !.log = IF o.mission_success
                      THEN @ \o Line(<<MissionThread(o.mission_name), "finished">>)
                      ELSE @]

\* lines 94-97, pc "sleep": after time.sleep(15)
OpEnd(o) ==
    [o EXCEPT !.pc = "ended",
              !.log = @ \o Line(IF o.mission_success
                                THEN <<MissionThread(o.mission_name), "finished">>
                                ELSE <<MissionThread(o.mission_name), "finished",
                                       "with errors">>)]

\* ---- openpasslite: the request handlers
\* start_mission without the check of line 153: a thread is started over a
\* live one
openpasslite_start_mission_unchecked(o, name, started) ==
    LET o2 == [o EXCEPT !.starts = @ + 1]
    IN  IF name = "" THEN [o2 EXCEPT !.status = "400"]
        ELSE IF started
        THEN [o2 EXCEPT !.stop_mission_flag = FALSE, !.mission_thread = "thread",
                        !.pc = "begin", !.mission_name = name, !.drone = FALSE,
                        !.mission_success = FALSE, !.run = "none", !.log = <<>>,
                        !.status = "200", !.flagged_at = "none"]
        ELSE [o2 EXCEPT !.stop_mission_flag = FALSE, !.mission_thread = "thread",
                        !.pc = "unstarted", !.mission_name = name, !.status = "500"]

\* start_mission (lines 142-177); started: Thread.start() did not raise.  The
\* log kept is that of the thread of mission_thread.
openpasslite_start_mission(o, name, started) ==
    LET o2 == [o EXCEPT !.starts = @ + 1]
    IN  IF name = "" THEN [o2 EXCEPT !.status = "400"]
        ELSE IF is_alive(o) THEN [o2 EXCEPT !.status = "400"]
        ELSE IF started
        THEN [o2 EXCEPT !.stop_mission_flag = FALSE, !.mission_thread = "thread",
                        !.pc = "begin", !.mission_name = name, !.drone = FALSE,
                        !.mission_success = FALSE, !.run = "none", !.log = <<>>,
                        !.status = "200", !.flagged_at = "none"]
        ELSE [o2 EXCEPT !.stop_mission_flag = FALSE, !.mission_thread = "thread",
                        !.pc = "unstarted", !.mission_name = name, !.status = "500"]

\* stop_mission (lines 179-208); the disconnect of line 195 may raise, which
\* line 197 catches: either way the answer is the same
openpasslite_stop_mission(o) ==
    LET o2 == [o EXCEPT !.stops = @ + 1]
    IN  IF ~is_alive(o) THEN [o2 EXCEPT !.status = "400"]
        ELSE [o2 EXCEPT !.stop_mission_flag = TRUE, !.status = "200",
                        !.flagged_at = IF @ = "none" THEN o.pc ELSE @]

\* ---- wildwings: run_mission_background (lines 41-155)
\* lines 123-125: except Exception
WwExcept(w) ==
    [w EXCEPT !.pc = "finally", !.mission_success = FALSE,
              !.log = @ \o Line(<<"Mission failed:">>)]

\* lines 45-52, pc "begin": under mission_lock
WwBegin(w) ==
    IF w.is_running THEN [w EXCEPT !.pc = "ended", !.log = @ \o Unmatched]
    ELSE [w EXCEPT !.pc = "check", !.is_running = TRUE, !.stop_mission_flag = FALSE,
                   !.mission_success = FALSE]

\* lines 55-57, pc "check"
WwCheck(w) ==
    IF w.stop_mission_flag
    THEN [w EXCEPT !.pc = "finally", !.log = @ \o Unmatched]
    ELSE [w EXCEPT !.pc = "launch", !.log = @ \o Unmatched]

\* lines 62-95, pc "launch"; ok: the script is there and Popen did not raise
WwLaunch(w, ok) ==
    IF ok THEN [w EXCEPT !.pc = "stream", !.current_process = "running",
                         !.return_code = None, !.log = @ \o Unmatched]
    ELSE WwExcept(w)

\* terminate() of a process: one that still runs exits with a code that is
\* not 0
Terminated(w) ==
    IF w.current_process = "running"
    THEN [w EXCEPT !.current_process = "exited", !.return_code = 1]
    ELSE w

\* lines 98-108, pc "stream": readline has returned a line
WwStreamLine(w) ==
    IF w.stop_mission_flag
    THEN [Terminated(w) EXCEPT !.pc = "wait", !.mission_success = FALSE,
                               !.log = @ \o Unmatched]
    ELSE [w EXCEPT !.log = @ \o Unmatched]

\* line 98: readline has returned '', the process has closed its output
WwStreamEnd(w) == [w EXCEPT !.pc = "wait"]

\* lines 110-121, pc "wait": under mission_lock, the process has exited
WwWait(w) ==
    [w EXCEPT !.pc = "finally", !.mission_success = (w.return_code = 0),
              !.log = @ \o Line(<<"Mission process exited with return code:", "text">>)
                        \o Unmatched]

\* lines 128-146, pc "finally": under mission_lock
WwFinally(w) ==
    [w EXCEPT !.pc = "sleep", !.is_running = FALSE, !.current_process = "none",
              !.stop_mission_flag = FALSE,
              !.log = IF w.current_process # "none" THEN @ \o Unmatched ELSE @]

\* lines 149-155, pc "sleep": after time.sleep(5)
WwEnd(w) ==
    [w EXCEPT !.pc = "ended",
              !.log = @ \o Line(IF w.mission_success
                                THEN <<"Mission thread", "finished">>
                                ELSE <<"Mission thread", "finished", "with errors">>)]

\* ---- wildwings: the request handlers
\* start_mission (lines 210-254); started: Thread.start() did not raise
wildwings_start_mission(w, la, lo, started) ==
    LET w2 == [w EXCEPT !.starts = @ + 1]
    IN  IF is_alive(w) \/ w.is_running THEN [w2 EXCEPT !.status = "409"]
        ELSE IF started
        THEN [w2 EXCEPT !.mission_lat = la, !.mission_lon = lo,
                        !.stop_mission_flag = FALSE, !.mission_thread = "thread",
                        !.pc = "begin", !.log = <<>>, !.status = "200",
                        !.flagged_at = "none"]
        ELSE [w2 EXCEPT !.mission_lat = la, !.mission_lon = lo,
                        !.stop_mission_flag = FALSE, !.mission_thread = "thread",
                        !.pc = "unstarted", !.status = "500"]

\* stop_mission (lines 256-314) blocks the event loop while the mission
\* thread runs on; handler is the statement it is about to execute:
\*   "idle"       no stop_mission is being handled
\*   "flag"       line 273        "terminate"  lines 277-292
\*   "join"       lines 295-297   "finish"     lines 299-307
\* lines 262-270: with no thread alive and is_running False it answers at once
wildwings_stop_mission(w) ==
    IF ~is_alive(w) /\ ~w.is_running
    THEN [w EXCEPT !.status = "200", !.was_running = FALSE, !.stops = @ + 1]
    ELSE [w EXCEPT !.handler = "flag"]
\* line 273
StopFlag(w) ==
    [w EXCEPT !.handler = "terminate", !.stop_mission_flag = TRUE,
              !.flagged_at = IF @ = "none" /\ is_alive(w) THEN w.pc ELSE @]
\* lines 277-292, under mission_lock
StopTerminate(w) == [Terminated(w) EXCEPT !.handler = "join"]
\* lines 295-297: join returns when the thread has ended, or after 10 seconds
StopJoin(w) == [w EXCEPT !.handler = "finish"]
\* lines 299-307
StopFinish(w) ==
    [w EXCEPT !.handler = "idle", !.is_running = FALSE, !.status = "200",
              !.was_running = TRUE, !.stops = @ + 1]

\* ---- the services running
wait_frame_orch == <<pipeline_running, lat, lon, pipeline_task, tasks, cancel_req, stops,
                     start_resp, stop_resp, hist, accepted_open, unlocked, pipeline_lock,
                     lifespan, cs>>
svc_frame == <<pipeline_running, stop_event, lat, lon, pipeline_task, tasks, cancel_req,
               stops, start_resp, stop_resp, hist, accepted_open, unlocked,
               pipeline_lock, lifespan, wfc, cs>>

\* Both services as started, no request handled yet.
SvcInit ==
    /\ op = OpIdle
    /\ ww = WwIdle
    /\ pipeline_running = FALSE
    /\ stop_event = FALSE
    /\ lat = None
    /\ lon = None
    /\ pipeline_task = None
    /\ tasks = [t \in TaskIds |-> NoTask]
    /\ cancel_req = {}
    /\ stops = [s \in StopIds |-> NoStop]
    /\ start_resp = "none"
    /\ stop_resp = NoResp
    /\ hist = [t \in TaskIds |-> NoHist]
    /\ accepted_open = 0
    /\ unlocked = {}
    /\ pipeline_lock = Free
    /\ lifespan = "serving"
    /\ wfc = NoWait
    /\ cs = NoCall

\* POST /start_mission of openpasslite
OpStartMission ==
    /\ op.starts < MaxMissions
    /\ \E name \in Missions \cup {""} : \E started \in BOOLEAN :
          op' = openpasslite_start_mission(op, name, started)
    /\ UNCHANGED <<ww, svc_frame>>

\* POST /stop_mission of openpasslite
OpStopMission ==
    /\ op.stops < MaxSvcStops
    /\ op' = openpasslite_stop_mission(op)
    /\ UNCHANGED <<ww, svc_frame>>

\* The mission thread of openpasslite takes its next step.
OpThreadStep ==
    /\ is_alive(op)
    /\ \/ op.pc = "begin" /\ op' = OpBegin(op)
       \/ op.pc = "import" /\ op' = OpImport(op)
       \/ op.pc = "setup" /\ \E ok \in BOOLEAN : op' = OpSetup(op, ok)
       \/ op.pc = "connect" /\ \E ok \in BOOLEAN : op' = OpConnect(op, ok)
       \/ op.pc = "run" /\ \E r \in {"returned", "raised", "undefined"} : op' = OpRun(op, r)
       \/ op.pc = "finally" /\ \E ok \in BOOLEAN : op' = OpFinally(op, ok)
       \/ op.pc = "clear" /\ op' = OpClear(op)
       \/ op.pc = "sleep" /\ op' = OpEnd(op)
    /\ UNCHANGED <<ww, svc_frame>>

\* POST /start_mission of wildwings
WwStartMission ==
    /\ ww.handler = "idle"
    /\ ww.starts < MaxMissions
    /\ \E c \in {<<None, None>>, <<0, 1>>} : \E started \in BOOLEAN :
          ww' = wildwings_start_mission(ww, c[1], c[2], started)
    /\ UNCHANGED <<op, svc_frame>>

\* POST /stop_mission of wildwings, up to its first return or to line 273
WwStopMission ==
    /\ ww.handler = "idle"
    /\ ww.stops < MaxSvcStops
    /\ ww' = wildwings_stop_mission(ww)
    /\ UNCHANGED <<op, svc_frame>>

\* stop_mission of wildwings goes on.
WwStopStep ==
    /\ \/ ww.handler = "flag" /\ ww' = StopFlag(ww)
       \/ ww.handler = "terminate" /\ ww' = StopTerminate(ww)
       \/ ww.handler = "join" /\ ww' = StopJoin(ww)
       \/ ww.handler = "finish" /\ ww' = StopFinish(ww)
    /\ UNCHANGED <<op, svc_frame>>

\* The mission thread of wildwings takes its next step.
WwThreadStep ==
    /\ is_alive(ww)
    /\ \/ ww.pc = "begin" /\ ww' = WwBegin(ww)
       \/ ww.pc = "check" /\ ww' = WwCheck(ww)
       \/ ww.pc = "launch" /\ \E ok \in BOOLEAN : ww' = WwLaunch(ww, ok)
       \/ /\ ww.pc = "stream" /\ ww.current_process = "running"
          /\ Len(ww.log) < MaxOutput
          /\ ww' = WwStreamLine(ww)
       \/ ww.pc = "stream" /\ ww.current_process = "exited" /\ ww' = WwStreamEnd(ww)
       \/ ww.pc = "wait" /\ ww.current_process = "exited" /\ ww' = WwWait(ww)
       \/ ww.pc = "finally" /\ ww' = WwFinally(ww)
       \/ ww.pc = "sleep" /\ ww' = WwEnd(ww)
    /\ UNCHANGED <<op, svc_frame>>

\* The mission subprocess of wildwings exits by itself.
ProcessExits ==
    /\ ww.current_process = "running"
    /\ \E rc \in {0, 1} : ww' = [ww EXCEPT !.current_process = "exited", !.return_code = rc]
    /\ UNCHANGED <<op, svc_frame>>

\* The services share nothing: each is run by itself.
OpNext ==
    \/ OpStartMission
    \/ OpStopMission
    \/ OpThreadStep

SpecOp == SvcInit /\ [][OpNext]_vars

WwNext ==
    \/ WwStartMission
    \/ WwStopMission
    \/ WwStopStep
    \/ WwThreadStep
    \/ ProcessExits

SpecWw == SvcInit /\ [][WwNext]_vars

\* Either service, run by itself from its start.
EitherNext ==
    \/ OpNext /\ ww = WwIdle
    \/ WwNext /\ op = OpIdle

SpecEither == SvcInit /\ [][EitherNext]_vars

\* ---- the second step of the pipeline: the orchestrator's wait_for_completion
\* beside the wildwings mission thread it waits for.  The file the wait
\* reads is the one the service logs to (get_log_paths, wildwings.log).
\* call_service has returned True for /start_mission: the thread is started,
\* and wait_for_completion is called with the mission_name of flow[2].
WildInit ==
    /\ op = OpIdle
    /\ ww = wildwings_start_mission(WwIdle, None, None, TRUE)
    /\ wfc = [pc |-> "start", mission_name |-> flow[2][3], exists |-> TRUE,
              content |-> <<>>, initial_size |-> 0, baseline |-> 0, elapsed |-> 0,
              outcome |-> "none", read |-> <<>>]
    /\ pipeline_running = TRUE
    /\ stop_event = FALSE
    /\ lat = None
    /\ lon = None
    /\ pipeline_task = None
    /\ tasks = [t \in TaskIds |-> NoTask]
    /\ cancel_req = {}
    /\ stops = [s \in StopIds |-> NoStop]
    /\ start_resp = "none"
    /\ stop_resp = NoResp
    /\ hist = [t \in TaskIds |-> NoHist]
    /\ accepted_open = 0
    /\ unlocked = {}
    /\ pipeline_lock = Free
    /\ lifespan = "serving"
    /\ cs = NoCall

\* The first stretch of wait_for_completion, over the file as it is now.
WildWaitBegin ==
    /\ wfc.pc = "start"
    /\ \E err_stat \in BOOLEAN, err \in BOOLEAN :
          wfc' = WaitFirst([wfc EXCEPT !.content = ww.log], stop_event, err_stat, err, <<>>)
    /\ UNCHANGED <<stop_event, op, ww>>
    /\ UNCHANGED wait_frame_orch

\* The sleep of line 170 ends.
WildWaitTick ==
    /\ wfc.pc = "monitor"
    /\ wfc.elapsed < timeout + MaxOverrun * poll_interval
    /\ \E err \in BOOLEAN :
          wfc' = MonitorPass([wfc EXCEPT !.content = ww.log, !.elapsed = @ + poll_interval],
                             stop_event, err, <<>>)
    /\ UNCHANGED <<stop_event, op, ww>>
    /\ UNCHANGED wait_frame_orch

WildNext ==
    \/ WildWaitBegin
    \/ WildWaitTick
    \/ WwThreadStep
    \/ ProcessExits

SpecWild == WildInit /\ [][WildNext]_vars

\* ------------------------------------------------------------ claims
Running == {t \in TaskIds : InBody(tasks[t])}

\* C1: single flight.  At most one background task is inside the step-walking
\* body of execute_pipeline, and a task that finds pipeline_running set ends
\* at once: it starts no call and leaves pipeline_running and the stop event
\* as they are.
C1_SingleFlight ==
    /\ [](Cardinality(Running) <= 1)
    /\ [][\A t \in TaskIds :
            (tasks[t].pc = "created" /\ pipeline_running /\ tasks'[t] # tasks[t])
            => /\ tasks'[t].pc = "done"
               /\ pipeline_running' = pipeline_running
               /\ stop_event' = stop_event]_vars

\* C1 witness: a task is executing steps and another one has found the flag
\* set and returned False without a single call.
C1_Witness ==
    \E t, u \in TaskIds :
        /\ InBody(tasks[t]) /\ pipeline_running
        /\ tasks[u].pc = "done" /\ hist[u].result = "False"
        /\ \A i \in StepIds : hist[u].attempts[i] = 0

\* C2 (as claimed): of the Start requests accepted while no run has ended in
\* between, there is at most one.
C2_OneAccepted == accepted_open <= 1

\* C3 (as claimed): once a Start request has been answered pipeline_started
\* and until its task has ended, the pipeline is running: the flag is set,
\* the coordinates are recorded, pipeline_status answers "running".
C3_StartAtomic ==
    \A t \in TaskIds :
        tasks[t].pc = "created"
        => /\ pipeline_running
           /\ lat # None /\ lon # None
           /\ pipeline_status.status = "running"

\* C4 (as claimed): a run during which stop_pipeline set the stop event does
\* not return True.
C4_StoppedNeverSuccessful ==
    \A t \in TaskIds : hist[t].stopped => hist[t].result # "True"

\* C5: Stop while idle is a no-op.  A stop_pipeline request handled while
\* pipeline_running is False is answered already_stopped, sends no request to
\* any service, does not set the stop event and leaves pipeline_running, the
\* coordinates, the task handle and the tasks as they are.
C5_StopIdleNoOp ==
    [][(~pipeline_running /\ \E s \in StopIds : StopBegin(s))
       => /\ stop_resp'.status = "already_stopped"
          /\ stop_resp'.stopped_services = <<>> /\ stop_resp'.failed_services = <<>>
          /\ StopRequests' = StopRequests
          /\ UNCHANGED <<pipeline_running, stop_event, lat, lon, pipeline_task,
                         tasks, cancel_req, stops>>]_vars

\* C5 witness: a Stop request has been answered already_stopped while a Start
\* request had been accepted and its task had not run yet.
C5_Witness ==
    /\ stop_resp.status = "already_stopped"
    /\ ~pipeline_running /\ ~stop_event
    /\ \E t \in TaskIds : tasks[t].pc = "created"

\* C6: bounded response to Stop.  Once the stop event is set while a task is
\* executing steps, the await the task is suspended in (one call, bounded by
\* its timeout, or one sleep of a poll or delay tick) is its last: the task's
\* next step ends the run with pipeline_running False, whatever the call
\* returned and whatever the log shows; and that step is taken.
C6_BoundedStop ==
    /\ [][\A t \in TaskIds :
            (InBody(tasks[t]) /\ hist[t].stopped /\ tasks'[t] # tasks[t])
            => tasks'[t].pc = "done" /\ ~pipeline_running']_vars
    /\ \A t \in TaskIds :
          (InBody(tasks[t]) /\ hist[t].stopped) ~> (tasks[t].pc = "done" /\ ~pipeline_running)

\* C6 witness: runs that were stopped in the monitoring phase of a step and
\* ended there, the job's sentinel never seen.
C6_Witness ==
    \E t \in TaskIds :
        /\ tasks[t].pc = "done" /\ hist[t].stopped /\ hist[t].result = "False"
        /\ hist[t].wait[2] = "Cancelled"
        /\ ~pipeline_running

NoRun == Running = {}

\* C7: the guard is released on every exit path.  Whenever a task that set
\* pipeline_running ends (return, exception, cancellation), the flag is False
\* and the stop event clear; with no run in progress both stay so, and a Start
\* request handled then is accepted.
C7_GuardReleased ==
    /\ [](NoRun => ~pipeline_running /\ ~stop_event)
    /\ [][\A t \in TaskIds :
            (InBody(tasks[t]) /\ tasks'[t].pc = "done")
            => ~pipeline_running' /\ ~stop_event']_vars
    /\ [][(NoRun /\ \E c \in Coords : Start(c))
           => start_resp' = "pipeline_started"]_vars

\* C7 witness: a run ended by cancellation while it was executing steps, and
\* the next Start request has been accepted.
C7_Witness ==
    \E t, u \in TaskIds :
        /\ tasks[t].pc = "done" /\ hist[t].result = "Cancelled"
        /\ hist[t].attempts[1] > 0
        /\ tasks[u].pc = "created" /\ start_resp = "pipeline_started"
        /\ pipeline_task = u

\* C8 (as claimed): the start call of step k+1 is issued only after step k's
\* completion wait has returned Success.
C8_EachStepConfirmed ==
    \A t \in TaskIds : \A k \in StepIds :
        (k + 1 \in StepIds /\ hist[t].attempts[k + 1] > 0)
        => hist[t].wait[k] = "Success"

\* C8 (amended): the start call of the second step is issued only after the
\* first step's completion wait has returned Success; the start call of the
\* third step is issued only after the second step has ended, its start call
\* failed or its completion wait returned with an outcome other than
\* Cancelled (Success is not required of the second step).
C8_StepOrder ==
    \A t \in TaskIds :
        /\ hist[t].attempts[2] > 0 => hist[t].wait[1] = "Success"
        /\ hist[t].attempts[3] > 0
           => /\ hist[t].wait[1] = "Success"
              /\ \/ hist[t].call[2] = "failed"
                 \/ hist[t].wait[2] \in {"Success", "Failure", "TimedOut", "Error"}

\* C8 witness: the third step's start call issued after the second step's
\* completion wait timed out.
C8_Witness ==
    \E t \in TaskIds :
        /\ hist[t].attempts[3] > 0 /\ hist[t].wait[2] = "TimedOut"
        /\ tasks[t].pc = "call" /\ tasks[t].idx = 3

\* C9: a failure of the first step aborts the run.  If the first step's
\* start call fails or its completion wait returns anything but Success, the
\* run has ended with False and no start call of the second or third step
\* was issued.
C9_FirstStepAborts ==
    \A t \in TaskIds :
        (hist[t].call[1] = "failed" \/ hist[t].wait[1] \notin {"none", "Success"})
        => /\ tasks[t].pc = "done" /\ hist[t].result = "False"
           /\ hist[t].attempts[2] = 0 /\ hist[t].attempts[3] = 0

\* C9 witness: a run whose first step's completion wait saw a failure
\* sentinel.
C9_Witness ==
    \E t \in TaskIds :
        /\ hist[t].wait[1] = "Failure" /\ hist[t].result = "False"
        /\ hist[t].attempts[2] = 0

\* C10 (as claimed): a step whose start call failed was attempted
\* maxRetries + 1 times, 3 times for maxRetries = 2.
C10_RetryAccounting ==
    \A t \in TaskIds : \A i \in StepIds :
        hist[t].call[i] = "failed" => hist[t].attempts[i] = 2 + 1

\* C11 (as claimed): when the first step succeeded and the second step's
\* completion wait timed out, the run ends with False at step 2 and the start
\* call of the third step is never issued.
C11_TimeoutAtStepTwoAborts ==
    \A t \in TaskIds :
        (hist[t].wait[1] = "Success" /\ hist[t].call[2] = "ok"
            /\ hist[t].wait[2] = "TimedOut")
        => /\ hist[t].attempts[3] = 0
           /\ tasks[t].pc = "done" => hist[t].result = "False"

\* C11 (amended): when the first step succeeded and the second step's
\* completion wait timed out, the run does not end at step 2: the start call
\* of the third step is issued in the same stretch, exactly once, and the
\* result of the run is decided from the third step on (it is True when the
\* third step completes and the run is neither stopped nor cancelled).
C11_TimeoutAtStepTwoContinues ==
    \A t \in TaskIds :
        (hist[t].wait[1] = "Success" /\ hist[t].call[2] = "ok"
            /\ hist[t].wait[2] = "TimedOut")
        => /\ hist[t].attempts[3] = 1
           /\ hist[t].call[3] = "none" => tasks[t].pc = "call" \/ hist[t].result = "Cancelled"
           /\ hist[t].result = "True" => hist[t].wait[3] = "Success"
           /\ (tasks[t].pc = "done" /\ hist[t].wait[3] = "Success" /\ ~hist[t].stopped
                  /\ hist[t].result # "Cancelled")
              => hist[t].result = "True"

\* C11 witness: a run that ended with True although the completion wait of
\* its second step timed out.
C11_Witness ==
    \E t \in TaskIds :
        /\ hist[t].wait[1] = "Success" /\ hist[t].wait[2] = "TimedOut"
        /\ hist[t].wait[3] = "Success" /\ hist[t].result = "True"
        /\ tasks[t].pc = "done"

\* What the log gained after the baseline was recorded and the monitoring
\* loop has read and left behind its moving baseline.
Consumed(w) == SubSeq(w.content, w.baseline + 1, w.initial_size)

\* C12 (as claimed): if the log gains the completion text of the watched
\* mission after the baseline was recorded, with no failure text, no stop
\* requested and the timeout not elapsed, wait_for_completion returns
\* Success: it is never found asleep in its monitoring loop, or returned by
\* its timeout, with the whole completion text among what it has read.
C12_GainedSentinelSucceeds ==
    (/\ wfc.pc = "monitor" \/ (wfc.pc = "done" /\ wfc.outcome = "TimedOut")
     /\ ~stop_event)
    => Scan(Consumed(wfc), wfc.mission_name) # "success"

\* C13: failure is evaluated before success.  When the new content of one
\* pass holds a failure pattern and the completion pattern, the failure
\* pattern starting at or before the place where the completion pattern
\* starts, wait_for_completion returns Failure from that pass.
C13_FailureBeforeSuccess ==
    (/\ wfc.pc = "done"
     /\ In(completion_pattern(wfc.mission_name), wfc.read)
     /\ \E k \in 1..Len(failure_patterns(wfc.mission_name)) :
           LET at == Find(wfc.read, failure_patterns(wfc.mission_name)[k])
           IN  at # 0 /\ at <= Find(wfc.read, completion_pattern(wfc.mission_name)))
    => wfc.outcome = "Failure"

\* C13 witness: a pass whose new content is a failure pattern followed by
\* the completion pattern, and which returned
\* Failure.
C13_Witness ==
    /\ wfc.pc = "done" /\ wfc.outcome = "Failure"
    /\ wfc.read = <<"AssertionError", "Mission LTT thread", "finished">>

\* C14 (as claimed): wait_for_completion ends within a bounded number of
\* polls even with no Stop: it is not found waiting for the file after the
\* appearance timeout nor monitoring after the overall timeout, errors of
\* stat or read on every pass included.
C14_WaitBounded ==
    /\ wfc.pc = "logwait" => wfc.elapsed <= max_wait_for_log
    /\ wfc.pc = "monitor" => wfc.elapsed <= timeout

\* C15: call_service never raises to its caller.  Whatever the remote
\* request comes to (a status other than 200, the timeout, a connection
\* error) and for a service name get_services() does not know, it returns
\* False; it returns True only for a 200 from a configured service; and the
\* call leaves pipeline_running, the stop event, lat and lon as they were.
C15_CallNeverRaises ==
    /\ [](cs.pc = "returned"
          => /\ cs.result.ret \in {"True", "False"}
             /\ cs.result.ret = "True"
                <=> (cs.resp = "200" /\ cs.args.service_name \in DOMAIN get_services))
    /\ [][(cs.pc = "called" /\ cs'.pc = "returned")
          => UNCHANGED <<pipeline_running, stop_event, lat, lon>>]_vars

\* C15 witness: calls that have returned False for an unknown service name,
\* for a timeout, and for a 2xx status that is not 200.
C15_Witness ==
    /\ cs.pc = "returned" /\ cs.result.ret = "False"
    /\ \/ cs.args.service_name = "unknown" /\ cs.resp = "200"
       \/ cs.args.service_name = "wildwings" /\ cs.resp = "timeout" /\ pipeline_running

\* How often name n occurs in the sequence q.
Count(q, n) == Cardinality({k \in 1..Len(q) : q[k] = n})

\* C16: a Stop accepted while running asks every configured service to stop,
\* whatever step is active, and files each answer in exactly one list: while
\* the request to service i is in flight the services before it are filed
\* once each and no other is; once all are contacted, and in the response
\* with status "stopped", every service is in stopped_services or in
\* failed_services, in one of them only and once.
C16_EveryServiceFiled ==
    /\ \A s \in StopIds :
         /\ stops[s].pc = "contact"
            => \A k \in 1..Len(ServiceNames) :
                 Count(stops[s].stopped, ServiceNames[k]) + Count(stops[s].failed, ServiceNames[k])
                    = IF k < stops[s].i THEN 1 ELSE 0
         /\ stops[s].pc = "await_task"
            => \A k \in 1..Len(ServiceNames) :
                 Count(stops[s].stopped, ServiceNames[k]) + Count(stops[s].failed, ServiceNames[k]) = 1
    /\ stop_resp.status = "stopped"
       => \A k \in 1..Len(ServiceNames) :
            Count(stop_resp.stopped_services, ServiceNames[k])
               + Count(stop_resp.failed_services, ServiceNames[k]) = 1

\* C16 witness: a response with one service in each list.
C16_Witness ==
    /\ stop_resp.status = "stopped"
    /\ stop_resp.stopped_services = <<"wildwings">>
    /\ stop_resp.failed_services = <<"openpasslite">>

C18_StopEventStaysSet ==
    [][\A t \in TaskIds :
          (InBody(tasks[t]) /\ stop_event /\ InBody(tasks'[t])) => stop_event']_vars

\* C18 witness: the stop event is set and the run still executes steps, after
\* a second accepted Start's task has begun and ended at the guard.
C18_Witness ==
    \E t, u \in TaskIds :
        /\ InBody(tasks[t]) /\ stop_event /\ hist[t].stopped
        /\ u # t /\ u > t /\ tasks[u].pc = "done" /\ hist[u].result = "False"

\* C19 (as claimed): pipeline_lock is never held across a suspension point,
\* in the handlers, the background execution and the shutdown hook: at every
\* suspension point the lock is free, so that pipeline_status can take it.
C19_LockFreeAtEveryAwait == pipeline_lock.holder = "free"

\* C20 (as claimed): every read and every write of the shared run state (the
\* running flag, lat and lon, the stop event, the task handle) by the
\* handlers and by the background execution happens while pipeline_lock is
\* held: no stretch has touched one of them outside the lock.
C20_AllAccessUnderLock == unlocked = {}

\* C24: the continue policy of the second step.  When the second step has
\* failed (its start call failed, or its completion wait returned Failure,
\* TimedOut or an error) and no stop was requested of the run, the start call
\* of the third step has been issued; and a start call that failed is not
\* followed by a completion wait for its step.
C24_SecondStepContinues ==
    \A t \in TaskIds :
        /\ ((hist[t].call[2] = "failed"
                \/ hist[t].wait[2] \in {"Failure", "TimedOut", "Error"})
            /\ ~hist[t].stopped)
           => hist[t].attempts[3] = 1
        /\ \A i \in StepIds : hist[t].call[i] = "failed" => hist[t].wait[i] = "none"

\* C24 witness: the third step's start call in flight after the start call
\* of the second step failed, no completion wait made for the second step.
C24_Witness ==
    \E t \in TaskIds :
        /\ hist[t].call[2] = "failed" /\ hist[t].wait[2] = "none"
        /\ tasks[t].pc = "call" /\ tasks[t].idx = 3 /\ ~hist[t].stopped

\* C25: a run returns True only if the first and the last step each had a
\* start call that succeeded and a completion wait that returned Success;
\* the second step alone may have failed in a run that returned True.
C25_CompletedNeedsFirstAndLast ==
    \A t \in TaskIds :
        hist[t].result = "True"
        => /\ hist[t].call[1] = "ok" /\ hist[t].wait[1] = "Success"
           /\ hist[t].call[3] = "ok" /\ hist[t].wait[3] = "Success"
           /\ hist[t].attempts = [i \in StepIds |-> 1]

\* C25 witness: a run that returned True although the start call of its
\* second step failed.
C25_Witness ==
    \E t \in TaskIds :
        /\ hist[t].result = "True" /\ tasks[t].pc = "done"
        /\ hist[t].call[2] = "failed"

\* C26: no job is started after cancellation.  While the stop event is set
\* no step of any task issues a start call: the count of start calls of no
\* step grows, on the continue path of the second step as anywhere else.
C26_NoStartAfterStop ==
    [][stop_event
       => \A t \in TaskIds : \A i \in StepIds :
             hist'[t].attempts[i] <= hist[t].attempts[i]]_vars

\* C26 witness: a stopped run whose second step's start call failed after
\* the stop event was set, and which ended without a start call of the third
\* step.
C26_Witness ==
    \E t \in TaskIds :
        /\ hist[t].stopped /\ hist[t].call[2] = "failed"
        /\ hist[t].attempts[3] = 0
        /\ tasks[t].pc = "done" /\ hist[t].result = "False"

\* C27: the stop event is looked at before every one-second sleep of the
\* inter-step wait.  A task that takes a step from the wait with the stop
\* event set ends in that step, and issues no start call in it.
C27_DelayHonoursStop ==
    [][\A t \in TaskIds :
          (tasks[t].pc = "delay" /\ stop_event /\ tasks'[t] # tasks[t])
          => /\ tasks'[t].pc = "done"
             /\ hist'[t].attempts = hist[t].attempts]_vars

\* C27 witness: a run stopped in the wait after its first step, ended with
\* False before the ten sleeps were over and with no start call of the
\* second step.
C27_Witness ==
    \E t \in TaskIds :
        /\ hist[t].stopped /\ hist[t].wait[1] = "Success"
        /\ hist[t].attempts[2] = 0
        /\ tasks[t].pc = "done" /\ hist[t].result = "False"

\* C28 (as claimed): two consecutive start calls are always separated by
\* the whole inter-step wait: the start call of step k+1 is issued only by
\* the step that ends the tenth sleep.
C28_AlwaysDelayed ==
    [][\A t \in TaskIds : \A i \in StepIds :
          (i > 1 /\ hist'[t].attempts[i] > hist[t].attempts[i])
          => tasks[t].pc = "delay" /\ tasks[t].d = delay_ticks]_vars

\* C28 (amended): the inter-step wait follows a step that completed.  The
\* start call of the second step is issued only by the step that ends the
\* tenth sleep after the first step; the start call of the third step is
\* issued either so, after a second step that completed, or at once, with no
\* wait, by the step in which the second step failed.
C28_DelayAfterSuccess ==
    [][\A t \in TaskIds : \A i \in StepIds :
          (i > 1 /\ hist'[t].attempts[i] > hist[t].attempts[i])
          => \/ /\ tasks[t].pc = "delay" /\ tasks[t].d = delay_ticks
                /\ tasks[t].idx = i - 1 /\ hist[t].wait[i - 1] = "Success"
             \/ /\ i = 3 /\ tasks[t].idx = 2
                /\ tasks[t].pc \in {"call", "logwait", "monitor"}
                /\ \/ hist'[t].call[2] = "failed"
                   \/ hist'[t].wait[2] \in {"Failure", "TimedOut", "Error"}]_vars

\* C28 witness: the third step's start call in flight right after the
\* completion wait of the second step saw a failure, no sleep in between.
C28_Witness ==
    \E t \in TaskIds :
        /\ hist[t].wait[2] = "Failure" /\ hist[t].attempts[3] = 1
        /\ tasks[t].pc = "call" /\ tasks[t].idx = 3 /\ tasks[t].d = 0

\* C29: once the stop event is set while wait_for_completion sleeps, in the
\* loop waiting for the file or in the monitoring loop, the pass that follows
\* the sleep returns a result that is not Success and has scanned nothing; so
\* wait_for_completion never returns Success with the stop event set.
C29_StopEndsWaitUnscanned ==
    [][/\ (stop_event /\ wfc.pc \in {"logwait", "monitor"}
              /\ wfc'.elapsed # wfc.elapsed)
          => /\ wfc'.pc = "done"
             /\ wfc'.outcome = "Cancelled"
             /\ wfc'.read = <<>>
       /\ (stop_event' /\ wfc'.pc = "done") => wfc'.outcome # "Success"]_vars

\* C29 witness: the wait ended by the stop event while the completion text of
\* its mission lay unread in the file, past the point read so far.
C29_Witness ==
    /\ stop_event /\ wfc.pc = "done" /\ wfc.outcome = "Cancelled"
    /\ In(completion_pattern(wfc.mission_name),
          SubSeq(wfc.content, wfc.initial_size + 1, Len(wfc.content)))

\* What decided a wait that returned Success or Failure: the content of the
\* file from some point at or after the first baseline up to its end.
DecidedPastBaseline(w) ==
    w.outcome \in {"Success", "Failure"}
    => \E k \in w.baseline..Len(w.content) :
          /\ w.read = SubSeq(w.content, k + 1, Len(w.content))
          /\ Scan(w.read, w.mission_name)
                = (IF w.outcome = "Success" THEN "success" ELSE "fail")

\* C30: what is in the file before the baseline never decides a wait.  The
\* point read from never moves back and is never before the first baseline,
\* and a Success or a Failure is the scan of content past that baseline
\* alone, whatever an earlier job of the same name left before it.
C30_StaleContentIgnored ==
    [][/\ wfc'.initial_size >= wfc.initial_size
       /\ wfc'.baseline <= wfc'.initial_size
       /\ wfc'.initial_size <= Len(wfc'.content)
       /\ DecidedPastBaseline(wfc')]_vars

\* C30 witness: a wait that returned Failure for what was appended after the
\* baseline while the completion text of an earlier job of the same name lay
\* before the baseline.
C30_Witness ==
    /\ wfc.pc = "done" /\ wfc.outcome = "Failure"
    /\ wfc.baseline > 0
    /\ In(completion_pattern(wfc.mission_name), SubSeq(wfc.content, 1, wfc.baseline))

\* The mission state of a service.
OpState(o) == <<o.mission_thread, o.pc, o.stop_mission_flag, o.current_drone>>
WwState(w) == <<w.mission_thread, w.pc, w.stop_mission_flag, w.current_process,
                w.is_running>>

\* C21 (as claimed): a stop_mission request handled by a service with no
\* active job, the first or a repeated one, leaves the mission state of the
\* service as it was and is answered with success, on openpasslite as on
\* wildwings.
C21_IdleStopIsNoOp ==
    [][/\ (~is_alive(op) /\ op'.stops > op.stops)
          => OpState(op') = OpState(op) /\ op'.status = "200"
       /\ (~is_alive(ww) /\ ~ww.is_running /\ ww.handler = "idle"
              /\ ww'.stops > ww.stops)
          => WwState(ww') = WwState(ww) /\ ww'.status = "200"]_vars

\* The places in the log of the openpasslite thread where the text
\* "Mission J thread finished" stands.
Terminal(o) ==
    {k \in 1..Len(o.log) : IsAt(o.log, completion_pattern(o.mission_name), k)}

\* C22: an openpasslite mission thread that has ended has logged exactly
\* one terminal line, as the last line of its log: "Mission J thread
\* finished" alone if and only if run() returned without raising, and
\* followed by "with errors" otherwise; a thread still alive has logged none.
C22_OneTerminalLine ==
    /\ is_alive(op) => Terminal(op) = {}
    /\ (op.mission_thread = "thread" /\ op.pc = "ended")
       => /\ Cardinality(Terminal(op)) = 1
          /\ \A k \in Terminal(op) :
                IF op.run = "returned"
                THEN k + 1 = Len(op.log)
                ELSE k + 2 = Len(op.log) /\ op.log[k + 2] = "with errors"

\* C22 witness: a thread ended with the line "Mission J thread finished"
\* after run() returned and the disconnect of the drone failed.
C22_Witness ==
    /\ op.pc = "ended" /\ op.run = "returned"
    /\ In(<<"Error disconnecting drone:">>, op.log)
    /\ IsAt(op.log, completion_pattern(op.mission_name), Len(op.log) - 1)

\* C23 (as claimed): the wildwings thread that ends after a subprocess
\* exited with return code 0 has written the text the orchestrator waits for,
\* and the lines of such a finish never make the orchestrator's wait for the
\* wildwings step return Failure.
C23_WildwingsSuccessSeen ==
    /\ (ww.pc = "ended" /\ ww.mission_success)
       => In(completion_pattern(wfc.mission_name), ww.log)
    /\ (wfc.pc = "done" /\ ww.return_code = 0) => wfc.outcome # "Failure"

\* C31 (as claimed): no sentinel is lost to the incremental read.  However
\* the pieces of a success or failure text reach the file, wait_for_completion
\* is never found asleep in its monitoring loop, nor returned without Success
\* or Failure, with a whole sentinel among what it has read past the baseline.
C31_NoSentinelLost ==
    (wfc.pc = "monitor" \/ (wfc.pc = "done" /\ wfc.outcome \notin {"Success", "Failure"}))
    => Scan(Consumed(wfc), wfc.mission_name) = "quiet"

\* C32 (as claimed): a Stop request affects only the run that was active
\* when it was issued.  When stop_pipeline calls cancel() on a task that is
\* executing steps, that task was executing steps when a Stop set the stop
\* event: it is never the task of a run that began afterwards.
C32_StopCancelsOnlyItsRun ==
    [][\A t \in TaskIds :
          (t \in cancel_req' /\ t \notin cancel_req /\ InBody(tasks[t]))
          => hist[t].stopped]_vars

\* C33 (as claimed): every start_mission call a run sends to openpasslite
\* carries the lat and lon of the request that created the task executing
\* the run: in the step in which a task issues such a call, the globals
\* call_service reads hold that request's coordinates.
C33_RunSendsItsOwnCoordinates ==
    [][\A t \in TaskIds : \A i \in StepIds :
          (hist'[t].attempts[i] > hist[t].attempts[i] /\ flow[i][1] = "openpasslite")
          => <<lat, lon>> = tasks[t].c]_vars

\* C34 (as claimed): shutdown while a pipeline is running ends without a
\* deadlock.  The shutdown hook, which has cancelled the task and awaits it,
\* never holds pipeline_lock while that task's cleanup is blocked in the
\* acquire of the same lock on the thread of the event loop.
C34_ShutdownNeverDeadlocks ==
    ~(/\ lifespan = "await_task"
      /\ pipeline_lock.holder = "lifespan"
      /\ pipeline_lock.waiter # None)

\* C38 (as claimed): every mission name the flow of the orchestrator sends
\* to openpasslite names a mission openpasslite can load.  The thread of
\* such a mission, when it executes its import, goes on to make the
\* controller: it never fails there.
C38_FlowMissionsLoad ==
    [][(/\ op.pc = "import" /\ op'.pc # "import"
        /\ \E i \in StepIds : flow[i][1] = "openpasslite" /\ flow[i][3] = op.mission_name)
       => op'.pc = "setup"]_vars

\* C35 (as claimed): a wildwings stop request is never lost.  A mission
\* thread for which stop_mission set the stop flag before the subprocess was
\* launched, and answered was_running True, ends with "Mission thread
\* finished with errors", the case of a flag set before the thread's first
\* critical section included.
C35_WildwingsStopNotLost ==
    (/\ ww.pc = "ended"
     /\ ww.flagged_at \in {"begin", "check", "launch"}
     /\ ww.handler = "idle" /\ ww.was_running)
    => IsAt(ww.log, <<"Mission thread", "finished", "with errors">>, Len(ww.log) - 2)

\* C36 (as claimed): an acknowledged openpasslite stop takes effect.  A
\* mission thread for which stop_mission set the stop flag and answered
\* success, before its flag check, between the flag check and the
\* publication of the drone handle, or during run(), does not end with
\* "Mission J thread finished" alone.
C36_OpenpassliteStopTakesEffect ==
    (/\ op.pc = "ended"
     /\ op.flagged_at \in {"begin", "import", "setup", "connect", "run"})
    => ~IsAt(op.log, completion_pattern(op.mission_name), Len(op.log) - 1)

\* C37: in each mission service a start_mission handled while a mission
\* thread is alive, its cleanup sleep before the terminal line included, is
\* answered with an error (400 by openpasslite, 409 by wildwings) and changes
\* nothing of the mission state: no thread is started beside the live one.
C37_StartWhileAliveRejected ==
    [][/\ (is_alive(op) /\ op'.starts > op.starts)
          => op' = [op EXCEPT !.starts = @ + 1, !.status = "400"]
       /\ (is_alive(ww) /\ ww'.starts > ww.starts)
          => ww' = [ww EXCEPT !.starts = @ + 1, !.status = "409"]]_vars

\* a wildwings start_mission was rejected during the thread's cleanup sleep
C37_Witness ==
    /\ ww.status = "409" /\ ww.pc = "sleep" /\ ww.starts = 2
    /\ ~IsAt(ww.log, <<"Mission thread", "finished">>, Len(ww.log) - 1)

====
